---------------------------- MODULE Spec2Model ----------------------------
(***************************************************************************)
(* Stroke risk assessment: the rule-based scorer, the prediction arbiter   *)
(* and the two front ends (the Flask /predict route of app.py and          *)
(* predict_stroke_risk of streamlit_app.py).                               *)
(*                                                                         *)
(* Numbers.  age, avg_glucose_level and bmi are floats in the code and are *)
(* only ever compared with integer thresholds (x >= n), so a profile       *)
(* carries their integer part.  A probability is carried as an integer     *)
(* number of thousandths (296 is 0.296).                                   *)
(*                                                                         *)
(* Models.  The pickled predictors are opaque and read-only: what a        *)
(* predict call does for the request's input (return a value, return NaN,  *)
(* raise) is an input of the request, the same for every call made while   *)
(* serving that request.                                                   *)
(***************************************************************************)
EXTENDS Integers, Sequences, FiniteSets, TLC

VARIABLES
    app,                \* which program this process is: "flask" | "streamlit"
    binary_model,       \* module global: "None" | "loaded"
    probability_model,  \* module global: "None" | "loaded"
    pc,                 \* "idle" (waiting for a request) | "done" (result built)
    patient_data,       \* the profile of the request being served
    binary_out,         \* what binary_model.predict does for this request's input
    probability_out,    \* what probability_model.predict does for this request's input
    result,             \* the assessment handed to the caller
    served,             \* requests served so far by this process
    wrapper,            \* a predictor object of model_wrappers.py (its fields)
    X,                  \* the DataFrame given to the last model_wrappers.py call
    call,               \* which model_wrappers.py operation ran last, and what
                        \* it left in its caller's objects
    out,                \* what that operation produced
    requests,           \* the /predict requests in flight, one per worker thread
    narrative           \* the last get_ai_insights call: its arguments, what the
                        \* text-generation service did, what the call gave back

vars == <<app, binary_model, probability_model, pc, patient_data,
          binary_out, probability_out, result, served, wrapper, X, call, out,
          requests, narrative>>

-----------------------------------------------------------------------------
(* Bounds of the exploration *)

MaxRequests == 2

Ages == {35, 40, 50, 60, 65, 70, 75}
Glucoses == {90, 100, 120, 140, 150, 200, 210}
Bmis == {22, 25, 26, 30, 35}
\* "Unknown" takes the same branches as "never smoked" everywhere
SmokingStatuses == {"never smoked", "formerly smoked", "smokes"}

\* probabilities in thousandths; -50 and 1500 are out-of-range outputs
ProbThousandths == {-50, 100, 296, 600, 1500}

Profiles ==
    [age : Ages, hypertension : BOOLEAN, heart_disease : BOOLEAN,
     avg_glucose_level : Glucoses, bmi : Bmis, smoking_status : SmokingStatuses]

-----------------------------------------------------------------------------
(* Optional values (Python None) and the outcome of a model call *)

None == <<>>
Some(x) == <<x>>

NoModel == [kind |-> "nomodel", value |-> 0]
Raises == [kind |-> "raise", value |-> 0]
ReturnsNaN == [kind |-> "nan", value |-> 0]
Returns(v) == [kind |-> "returned", value |-> v]

BinaryOutcomes == {Returns(0), Returns(1), Raises}
ProbabilityOutcomes == {Returns(v) : v \in ProbThousandths} \cup {Raises, ReturnsNaN}

NoPatient == [none |-> TRUE]
NoResult == [none |-> TRUE]

Max(a, b) == IF a >= b THEN a ELSE b
Min(a, b) == IF a <= b THEN a ELSE b

-----------------------------------------------------------------------------
(* app.py: the rule-based scorer.  The code keeps one running base_score   *)
(* and appends to risk_factors / explanation as it goes; acc is that       *)
(* running state.  An explanation is its sentence template and, where the  *)
(* f-string interpolates one, the value.                                   *)

\* mutant of Start: the two lists are module-level and never cleared, so a
\* scorer run starts from what the request of thread t1 left in them
Start_SharedLists ==
    IF requests["t1"].pc \in {"assessed", "responded"}
    THEN [base_score |-> 0,
          risk_factors |-> requests["t1"].assessment.risk_factors,
          explanation |-> requests["t1"].assessment.explanation]
    ELSE [base_score |-> 0, risk_factors |-> <<>>, explanation |-> <<>>]

Start == [base_score |-> 0, risk_factors |-> <<>>, explanation |-> <<>>]

Add(acc, pts, factor, expl) ==
    [base_score |-> acc.base_score + pts,
     risk_factors |-> Append(acc.risk_factors, factor),
     explanation |-> Append(acc.explanation, expl)]

AddScore(acc, pts) == [acc EXCEPT !.base_score = acc.base_score + pts]

AddExplanation(acc, pts, expl) ==
    [acc EXCEPT !.base_score = acc.base_score + pts,
                !.explanation = Append(acc.explanation, expl)]

AgeFactor(acc, pd) ==
    IF pd.age >= 70 THEN Add(acc, 35, "Age 70+", <<"age significant after 70", pd.age>>)
    ELSE IF pd.age >= 60 THEN Add(acc, 25, "Age 60-69", <<"age elevated risk", pd.age>>)
    ELSE IF pd.age >= 50 THEN Add(acc, 15, "Age 50-59", <<"age regular screening", pd.age>>)
    ELSE IF pd.age >= 40 THEN AddScore(acc, 5)
    ELSE acc

HypertensionFactor(acc, pd) ==
    IF pd.hypertension
    THEN Add(acc, 20, "Hypertension", <<"hypertension damages vessels">>)
    ELSE acc

HeartDiseaseFactor(acc, pd) ==
    IF pd.heart_disease
    THEN Add(acc, 20, "Heart Disease", <<"heart disease linked to stroke">>)
    ELSE acc

\* mutant of GlucoseFactor: a glucose of 100 to 139 adds nothing
GlucoseFactor_NoUnlabelledBand(acc, pd) ==
    IF pd.avg_glucose_level >= 200
    THEN Add(acc, 15, "Very High Glucose", <<"glucose potential diabetes", pd.avg_glucose_level>>)
    ELSE IF pd.avg_glucose_level >= 140
    THEN Add(acc, 10, "Elevated Glucose", <<"glucose elevated", pd.avg_glucose_level>>)
    ELSE acc

\* mutant of GlucoseFactor: the points of the two labelled bands are swapped
GlucoseFactor_PointsSwapped(acc, pd) ==
    IF pd.avg_glucose_level >= 200
    THEN Add(acc, 10, "Very High Glucose", <<"glucose potential diabetes", pd.avg_glucose_level>>)
    ELSE IF pd.avg_glucose_level >= 140
    THEN Add(acc, 15, "Elevated Glucose", <<"glucose elevated", pd.avg_glucose_level>>)
    ELSE IF pd.avg_glucose_level >= 100 THEN AddScore(acc, 5)
    ELSE acc

GlucoseFactor(acc, pd) ==
    IF pd.avg_glucose_level >= 200
    THEN Add(acc, 15, "Very High Glucose", <<"glucose potential diabetes", pd.avg_glucose_level>>)
    ELSE IF pd.avg_glucose_level >= 140
    THEN Add(acc, 10, "Elevated Glucose", <<"glucose elevated", pd.avg_glucose_level>>)
    ELSE IF pd.avg_glucose_level >= 100 THEN AddScore(acc, 5)
    ELSE acc

\* mutant of BmiFactor: a bmi of 25 to 29 adds nothing
BmiFactor_NoUnlabelledBand(acc, pd) ==
    IF pd.bmi >= 35 THEN Add(acc, 10, "Severe Obesity", <<"bmi severe obesity", pd.bmi>>)
    ELSE IF pd.bmi >= 30 THEN Add(acc, 7, "Obesity", <<"bmi obesity", pd.bmi>>)
    ELSE acc

\* mutant of BmiFactor: the points of the two labelled bands are swapped
BmiFactor_PointsSwapped(acc, pd) ==
    IF pd.bmi >= 35 THEN Add(acc, 7, "Severe Obesity", <<"bmi severe obesity", pd.bmi>>)
    ELSE IF pd.bmi >= 30 THEN Add(acc, 10, "Obesity", <<"bmi obesity", pd.bmi>>)
    ELSE IF pd.bmi >= 25 THEN AddScore(acc, 3)
    ELSE acc

BmiFactor(acc, pd) ==
    IF pd.bmi >= 35 THEN Add(acc, 10, "Severe Obesity", <<"bmi severe obesity", pd.bmi>>)
    ELSE IF pd.bmi >= 30 THEN Add(acc, 7, "Obesity", <<"bmi obesity", pd.bmi>>)
    ELSE IF pd.bmi >= 25 THEN AddScore(acc, 3)
    ELSE acc

\* mutant of SmokingFactor: a former smoker is reported without a sentence
SmokingFactor_FormerUnexplained(acc, pd) ==
    IF pd.smoking_status = "smokes"
    THEN Add(acc, 15, "Current Smoker", <<"smoking damages vessels">>)
    ELSE IF pd.smoking_status = "formerly smoked"
    THEN [acc EXCEPT !.base_score = acc.base_score + 5,
                     !.risk_factors = Append(acc.risk_factors, "Former Smoker")]
    ELSE acc

SmokingFactor(acc, pd) ==
    IF pd.smoking_status = "smokes"
    THEN Add(acc, 15, "Current Smoker", <<"smoking damages vessels">>)
    ELSE IF pd.smoking_status = "formerly smoked"
    THEN Add(acc, 5, "Former Smoker", <<"former smoking history">>)
    ELSE acc

\* the label "Age + Hypertension Combination" is never appended by the code,
\* so the membership test of line 257 is decided on the running list
\* mutant of AgeHypertensionCombination: the combination is also reported as
\* a factor, which the test of line 257 then guards
AgeHypertensionCombination_Labelled(acc, pd) ==
    IF pd.age >= 60 /\ pd.hypertension
    THEN IF \A i \in 1..Len(acc.risk_factors) :
                acc.risk_factors[i] # "Age + Hypertension Combination"
         THEN Add(acc, 10, "Age + Hypertension Combination",
                  <<"age and hypertension compound">>)
         ELSE AddScore(acc, 10)
    ELSE acc

AgeHypertensionCombination(acc, pd) ==
    IF pd.age >= 60 /\ pd.hypertension
    THEN IF \A i \in 1..Len(acc.risk_factors) :
                acc.risk_factors[i] # "Age + Hypertension Combination"
         THEN AddExplanation(acc, 10, <<"age and hypertension compound">>)
         ELSE AddScore(acc, 10)
    ELSE acc

\* mutant of HypertensionHeartCombination: the second combination is an elif
\* of the first
HypertensionHeartCombination_Elif(acc, pd) ==
    IF pd.age >= 60 /\ pd.hypertension THEN acc
    ELSE IF pd.hypertension /\ pd.heart_disease
    THEN AddExplanation(acc, 10, <<"hypertension and heart disease">>)
    ELSE acc

HypertensionHeartCombination(acc, pd) ==
    IF pd.hypertension /\ pd.heart_disease
    THEN AddExplanation(acc, 10, <<"hypertension and heart disease">>)
    ELSE acc

\* mutant of CapScore: the upper cap is forgotten
CapScore_NoUpperCap(base_score) == Max(5, base_score)

CapScore(base_score) == Min(95, Max(5, base_score))

RuleRiskLevel(risk_percentage) ==
    IF risk_percentage >= 60 THEN "HIGH"
    ELSE IF risk_percentage >= 30 THEN "MODERATE"
    ELSE "LOW"

BaseScore(pd) ==
    HypertensionHeartCombination(
      AgeHypertensionCombination(
        SmokingFactor(
          BmiFactor(
            GlucoseFactor(
              HeartDiseaseFactor(
                HypertensionFactor(
                  AgeFactor(Start, pd), pd), pd), pd), pd), pd), pd), pd)

calculate_risk_score(pd) ==
    LET acc == BaseScore(pd)
        risk_percentage == CapScore(acc.base_score)
    IN  [risk_percentage |-> risk_percentage,
         risk_level |-> RuleRiskLevel(risk_percentage),
         risk_factors |-> acc.risk_factors,
         explanation |-> acc.explanation]

-----------------------------------------------------------------------------
(* streamlit_app.py: its own copy of the rule-based scorer (no             *)
(* explanations, no points without a label, no combination bonus)          *)

st_Start == [base_score |-> 0, risk_factors |-> <<>>]

st_Add(acc, pts, factor) ==
    [base_score |-> acc.base_score + pts,
     risk_factors |-> Append(acc.risk_factors, factor)]

st_AgeFactor(acc, pd) ==
    IF pd.age >= 70 THEN st_Add(acc, 35, "Age 70+")
    ELSE IF pd.age >= 60 THEN st_Add(acc, 25, "Age 60-69")
    ELSE IF pd.age >= 50 THEN st_Add(acc, 15, "Age 50-59")
    ELSE acc

st_HypertensionFactor(acc, pd) ==
    IF pd.hypertension THEN st_Add(acc, 20, "Hypertension") ELSE acc

st_HeartDiseaseFactor(acc, pd) ==
    IF pd.heart_disease THEN st_Add(acc, 20, "Heart Disease") ELSE acc

st_GlucoseFactor(acc, pd) ==
    IF pd.avg_glucose_level >= 200 THEN st_Add(acc, 15, "Very High Glucose")
    ELSE IF pd.avg_glucose_level >= 140 THEN st_Add(acc, 10, "Elevated Glucose")
    ELSE acc

st_BmiFactor(acc, pd) ==
    IF pd.bmi >= 35 THEN st_Add(acc, 10, "Severe Obesity")
    ELSE IF pd.bmi >= 30 THEN st_Add(acc, 7, "Obesity")
    ELSE acc

st_SmokingFactor(acc, pd) ==
    IF pd.smoking_status = "smokes" THEN st_Add(acc, 15, "Current Smoker")
    ELSE IF pd.smoking_status = "formerly smoked" THEN st_Add(acc, 5, "Former Smoker")
    ELSE acc

st_CapScore(base_score) == Min(95, Max(5, base_score))

st_RuleRiskLevel(risk_percentage) ==
    IF risk_percentage >= 60 THEN "HIGH"
    ELSE IF risk_percentage >= 30 THEN "MODERATE"
    ELSE "LOW"

st_BaseScore(pd) ==
    st_SmokingFactor(
      st_BmiFactor(
        st_GlucoseFactor(
          st_HeartDiseaseFactor(
            st_HypertensionFactor(
              st_AgeFactor(st_Start, pd), pd), pd), pd), pd), pd)

st_calculate_risk_score(pd) ==
    LET acc == st_BaseScore(pd)
        risk_percentage == st_CapScore(acc.base_score)
    IN  [risk_percentage |-> risk_percentage,
         risk_level |-> st_RuleRiskLevel(risk_percentage),
         risk_factors |-> acc.risk_factors]

-----------------------------------------------------------------------------
(* app.py: get_ai_insights and generate_fallback_insights.  A text is the  *)
(* sequence of the pieces it is joined from.                               *)

\* what requests.post and the reading of its response can do
ServiceOutcomes ==
    {[kind |-> "response", status_code |-> 200, body |-> "content"],
     [kind |-> "response", status_code |-> 200, body |-> "not json"],
     [kind |-> "response", status_code |-> 200, body |-> "no choices"],
     [kind |-> "response", status_code |-> 200, body |-> "empty choices"],
     [kind |-> "response", status_code |-> 429, body |-> "error"],
     [kind |-> "response", status_code |-> 500, body |-> "not json"],
     [kind |-> "timeout", status_code |-> 0, body |-> "none"],
     [kind |-> "exception", status_code |-> 0, body |-> "none"]}

RiskLevels == {"LOW", "MODERATE", "HIGH"}

\* result['choices'][0]['message']['content'] of a well-formed body
ServiceText == <<"service text">>

Opening(risk_level) ==
    IF risk_level = "LOW" THEN "opening low"
    ELSE IF risk_level = "MODERATE" THEN "opening moderate"
    ELSE "opening elevated"

Recommendations(pd) ==
    (IF pd.age >= 60 THEN <<"check-ups">> ELSE <<>>)
      \o (IF pd.hypertension THEN <<"blood pressure">> ELSE <<>>)
      \o (IF pd.heart_disease THEN <<"heart medications">> ELSE <<>>)
      \o (IF pd.avg_glucose_level > 140 THEN <<"glucose monitoring">> ELSE <<>>)
      \o (IF pd.bmi > 30 THEN <<"weight management">> ELSE <<>>)
      \o (IF pd.smoking_status \in {"smokes", "formerly smoked"}
          THEN <<"quit smoking">> ELSE <<>>)

generate_fallback_insights(pd, risk_level, risk_factors) ==
    <<Opening(risk_level), "recommendations">>
      \o Recommendations(pd)
      \o <<"lifestyle tips", "activity", "sodium", "stress", "closing">>

\* the try block: raised is an exception leaving it (requests.post timing
\* out or failing, response.json() failing, a key or index missing)
TryService(pd, risk_level, risk_factors, outcome) ==
    IF outcome.kind # "response" THEN [raised |-> TRUE, text |-> <<>>]
    ELSE IF outcome.status_code = 200
    THEN IF outcome.body = "content"
         THEN [raised |-> FALSE, text |-> ServiceText]
         ELSE [raised |-> TRUE, text |-> <<>>]
    ELSE [raised |-> FALSE,
          text |-> generate_fallback_insights(pd, risk_level, risk_factors)]

\* mutant of InsightsExcept: the handler logs and raises again
InsightsExcept_Reraise(pd, risk_level, risk_factors) ==
    [raised |-> TRUE, text |-> <<>>]

\* "except Exception as e: ... return generate_fallback_insights(...)"
InsightsExcept(pd, risk_level, risk_factors) ==
    [raised |-> FALSE,
     text |-> generate_fallback_insights(pd, risk_level, risk_factors)]

get_ai_insights(pd, risk_level, risk_factors, outcome) ==
    LET body == TryService(pd, risk_level, risk_factors, outcome)
    IN  IF body.raised
        THEN InsightsExcept(pd, risk_level, risk_factors)
        ELSE body

NoNarrative == [pc |-> "idle"]

-----------------------------------------------------------------------------
(* app.py: the arbiter predict_with_model and the /predict route *)

BothLoaded == binary_model # "None" /\ probability_model # "None"

\* int(risk_probability * 100): Python's int() truncates toward zero
IntTimes100(pm) == IF pm >= 0 THEN pm \div 10 ELSE -((-pm) \div 10)

\* mutant of ValidRange: only the lower end is enforced
ValidRange_NoUpperEnd(risk_percentage) == Max(0, risk_percentage)

ValidRange(risk_percentage) == Max(0, Min(100, risk_percentage))

BinaryFloor(binary_prediction, risk_percentage) ==
    IF binary_prediction = 1 THEN Max(risk_percentage, 30) ELSE risk_percentage

ModelRiskLevel(risk_percentage) ==
    IF risk_percentage >= 60 THEN "HIGH"
    ELSE IF risk_percentage >= 30 THEN "MODERATE"
    ELSE "LOW"

\* mutant of TryModels: the level is determined before the binary floor
TryModels_LevelBeforeFloor(bo, po) ==
    IF bo.kind # "returned" THEN [raised |-> TRUE]
    ELSE IF po.kind # "returned" THEN [raised |-> TRUE]
    ELSE LET risk_percentage == ValidRange(IntTimes100(po.value))
         IN  [raised |-> FALSE,
              risk_percentage |-> BinaryFloor(bo.value, risk_percentage),
              risk_level |-> ModelRiskLevel(risk_percentage)]

\* the body of the try block; raised is an exception leaving the block:
\* binary_model.predict raising, probability_model.predict raising (it is
\* not reached when the binary call raised), or int() of a NaN
TryModels(bo, po) ==
    IF bo.kind # "returned" THEN [raised |-> TRUE]
    ELSE IF po.kind # "returned" THEN [raised |-> TRUE]
    ELSE LET risk_percentage ==
                 BinaryFloor(bo.value, ValidRange(IntTimes100(po.value)))
         IN  [raised |-> FALSE,
              risk_percentage |-> risk_percentage,
              risk_level |-> ModelRiskLevel(risk_percentage)]

\* mutant of ExceptFallback: the exception is raised again
ExceptFallback_Reraise(rule) == [raised |-> TRUE]

\* except Exception: return the rule-based tuple
ExceptFallback(rule) ==
    [raised |-> FALSE,
     risk_percentage |-> rule.risk_percentage,
     risk_level |-> rule.risk_level,
     risk_factors |-> rule.risk_factors,
     explanation |-> rule.explanation]

\* mutant of predict_with_model: a positive binary call is reported as one
\* more risk factor
predict_with_model_ModelFactor(pd, bo, po) ==
    LET rule == calculate_risk_score(pd)
    IN  IF binary_model = "None" \/ probability_model = "None"
        THEN [raised |-> FALSE,
              risk_percentage |-> rule.risk_percentage,
              risk_level |-> rule.risk_level,
              risk_factors |-> rule.risk_factors,
              explanation |-> rule.explanation]
        ELSE LET body == TryModels(bo, po)
             IN  IF body.raised
                 THEN ExceptFallback(rule)
                 ELSE [raised |-> FALSE,
                       risk_percentage |-> body.risk_percentage,
                       risk_level |-> body.risk_level,
                       risk_factors |->
                           IF bo.value = 1
                           THEN Append(rule.risk_factors, "Model Prediction")
                           ELSE rule.risk_factors,
                       explanation |-> rule.explanation]

predict_with_model(pd, bo, po) ==
    LET rule == calculate_risk_score(pd)
    IN  IF binary_model = "None" \/ probability_model = "None"
        THEN [raised |-> FALSE,
              risk_percentage |-> rule.risk_percentage,
              risk_level |-> rule.risk_level,
              risk_factors |-> rule.risk_factors,
              explanation |-> rule.explanation]
        ELSE LET body == TryModels(bo, po)
             IN  IF body.raised
                 THEN ExceptFallback(rule)
                 ELSE [raised |-> FALSE,
                       risk_percentage |-> body.risk_percentage,
                       risk_level |-> body.risk_level,
                       risk_factors |-> rule.risk_factors,
                       explanation |-> rule.explanation]

\* the route's own call of the binary model for the binary_prediction field
RouteBinaryPrediction(bo) ==
    IF binary_model # "None"
    THEN IF bo.kind = "returned" THEN Some(bo.value) ELSE None
    ELSE None

ErrorResponse == [success |-> FALSE, error |-> "exception"]

predict(pd, bo, po) ==
    LET r == predict_with_model(pd, bo, po)
    IN  IF r.raised
        THEN ErrorResponse
        ELSE [success |-> TRUE,
              risk_percentage |-> r.risk_percentage,
              risk_level |-> r.risk_level,
              risk_factors |-> r.risk_factors,
              explanation |-> r.explanation,
              binary_prediction |-> RouteBinaryPrediction(bo)]

-----------------------------------------------------------------------------
(* streamlit_app.py: the arbiter predict_stroke_risk and its caller *)

st_IntTimes100(pm) == IF pm >= 0 THEN pm \div 10 ELSE -((-pm) \div 10)

st_ValidRange(risk_percentage) == Max(0, Min(100, risk_percentage))

st_BinaryFloor(binary_prediction, risk_percentage) ==
    IF binary_prediction = Some(1) THEN Max(risk_percentage, 30) ELSE risk_percentage

st_ModelRiskLevel(risk_percentage) ==
    IF risk_percentage >= 60 THEN "HIGH"
    ELSE IF risk_percentage >= 30 THEN "MODERATE"
    ELSE "LOW"

\* inner try around binary_model.predict: binary_prediction stays None
st_BinaryPrediction(bo) ==
    IF bo.kind = "returned" THEN Some(bo.value) ELSE None

\* inner try around probability_model.predict: risk_probability stays None
st_RiskProbability(po) == IF po.kind = "raise" THEN None ELSE Some(po)

\* the outer except: the rule-based tuple and no binary prediction
st_OuterFallback(rule) ==
    [raised |-> FALSE,
     risk_percentage |-> rule.risk_percentage,
     risk_level |-> rule.risk_level,
     risk_factors |-> rule.risk_factors,
     binary_prediction |-> None]

\* mutant of predict_stroke_risk: the guard is "and" instead of "or", so one
\* loaded model is used alone (a call on the missing model raises
\* AttributeError inside its inner try)
predict_stroke_risk_AndGuard(pd, bo, po) ==
    LET rule == st_calculate_risk_score(pd)
        b == IF binary_model = "None" THEN Raises ELSE bo
        q == IF probability_model = "None" THEN Raises ELSE po
    IN  IF binary_model = "None" /\ probability_model = "None"
        THEN [raised |-> FALSE,
              risk_percentage |-> rule.risk_percentage,
              risk_level |-> rule.risk_level,
              risk_factors |-> rule.risk_factors,
              binary_prediction |-> None]
        ELSE LET binary_prediction == st_BinaryPrediction(b)
                 risk_probability == st_RiskProbability(q)
             IN  IF risk_probability # None
                 THEN IF risk_probability[1].kind = "nan"
                      THEN st_OuterFallback(rule)
                      ELSE LET risk_percentage ==
                                   st_BinaryFloor(binary_prediction,
                                       st_ValidRange(st_IntTimes100(risk_probability[1].value)))
                           IN  [raised |-> FALSE,
                                risk_percentage |-> risk_percentage,
                                risk_level |-> st_ModelRiskLevel(risk_percentage),
                                risk_factors |-> rule.risk_factors,
                                binary_prediction |-> binary_prediction]
                 ELSE [raised |-> FALSE,
                       risk_percentage |-> rule.risk_percentage,
                       risk_level |-> rule.risk_level,
                       risk_factors |-> rule.risk_factors,
                       binary_prediction |-> binary_prediction]

predict_stroke_risk(pd, bo, po) ==
    LET rule == st_calculate_risk_score(pd)
    IN  IF binary_model = "None" \/ probability_model = "None"
        THEN [raised |-> FALSE,
              risk_percentage |-> rule.risk_percentage,
              risk_level |-> rule.risk_level,
              risk_factors |-> rule.risk_factors,
              binary_prediction |-> None]
        ELSE LET binary_prediction == st_BinaryPrediction(bo)
                 risk_probability == st_RiskProbability(po)
             IN  IF risk_probability # None
                 THEN IF risk_probability[1].kind = "nan"
                      THEN st_OuterFallback(rule)   \* int(nan) raises ValueError
                      ELSE LET risk_percentage ==
                                   st_BinaryFloor(binary_prediction,
                                       st_ValidRange(st_IntTimes100(risk_probability[1].value)))
                           IN  [raised |-> FALSE,
                                risk_percentage |-> risk_percentage,
                                risk_level |-> st_ModelRiskLevel(risk_percentage),
                                risk_factors |-> rule.risk_factors,
                                binary_prediction |-> binary_prediction]
                 ELSE [raised |-> FALSE,
                       risk_percentage |-> rule.risk_percentage,
                       risk_level |-> rule.risk_level,
                       risk_factors |-> rule.risk_factors,
                       binary_prediction |-> binary_prediction]

\* the button handler: an exception from predict_stroke_risk is shown as an
\* error and the script stops
st_assess(pd, bo, po) ==
    LET r == predict_stroke_risk(pd, bo, po)
    IN  IF r.raised
        THEN ErrorResponse
        ELSE [success |-> TRUE,
              risk_percentage |-> r.risk_percentage,
              risk_level |-> r.risk_level,
              risk_factors |-> r.risk_factors,
              binary_prediction |-> r.binary_prediction]

-----------------------------------------------------------------------------
(* model_wrappers.py: DataFrames.  A frame is its ordered column names and *)
(* its rows, each row a function from column name to cell.  Numeric cells  *)
(* are integers (the grids below keep every division exact), NaN is a      *)
(* number outside every grid, categorical cells are strings.               *)

NaN == -999999

\* (the rows are kept as a sequence value)
Frame(columns, rows) == [columns |-> columns, rows |-> rows \o <<>>]

Names(columns) == {columns[i] : i \in 1..Len(columns)}

HasColumn(df, col) == col \in Names(df.columns)

\* the names of a list that are in (are not in) a set, in the list's order
Within(names, S) == SelectSeq(names, LAMBDA c : c \in S)

Without(names, S) == SelectSeq(names, LAMBDA c : c \notin S)

\* df[c] = cells[i][c] in every row i, for every c of names in that order:
\* an existing column keeps its place, a new one goes last
Assign(df, names, cells) ==
    Frame(df.columns \o Without(names, Names(df.columns)),
          [i \in 1..Len(df.rows) |->
              [c \in Names(names) |-> cells[i][c]] @@ df.rows[i]])

\* df.drop(columns=names)
Drop(df, names) ==
    Frame(Without(df.columns, Names(names)),
          [i \in 1..Len(df.rows) |->
              [c \in (DOMAIN df.rows[i]) \ Names(names) |-> df.rows[i][c]] @@ <<>>])

\* df[cols]: exactly these columns in this order (every name must be a
\* column, or pandas raises KeyError)
Select(df, cols) ==
    Frame(cols,
          [i \in 1..Len(df.rows) |->
              [c \in Names(cols) |-> df.rows[i][c]] @@ <<>>])

Column(df, col) == [i \in 1..Len(df.rows) |-> df.rows[i][col]]

\* the values of a sequence in rising order
RECURSIVE Sorted(_)
Sorted(s) ==
    IF s = <<>> THEN <<>>
    ELSE LET m == CHOOSE i \in 1..Len(s) : \A j \in 1..Len(s) : s[i] <= s[j]
         IN  <<s[m]>> \o Sorted(SubSeq(s, 1, m - 1) \o SubSeq(s, m + 1, Len(s)))

\* Series.median(): NaN cells are skipped; no cell left gives NaN
Median(series) ==
    LET present == Sorted(SelectSeq(series, LAMBDA v : v # NaN))
        n == Len(present)
    IN  IF n = 0 THEN NaN
        ELSE IF n % 2 = 1 THEN present[(n + 1) \div 2]
        ELSE (present[n \div 2] + present[n \div 2 + 1]) \div 2

\* df[col] = df[col].fillna(value): filling with NaN leaves the NaN
FillNa(df, col, value) ==
    Assign(df, <<col>>,
           [i \in 1..Len(df.rows) |->
               (col :> IF df.rows[i][col] = NaN THEN value ELSE df.rows[i][col])])

Ind(b) == IF b THEN 1 ELSE 0

\* NaN propagates through arithmetic
Times(a, b) == IF a = NaN \/ b = NaN THEN NaN ELSE a * b
Over(a, d) == IF a = NaN THEN NaN ELSE a \div d

\* np.log(age + 1) in thousandths, for the ages of the grid
LogThousandths(age) ==
    CASE age = 40 -> 3714
      [] age = 70 -> 4263

\* the order pandas sorts the category values in (code point order)
CategoryOrder ==
    <<"Female", "Govt_job", "Male", "Never_worked", "No", "Other", "Private",
      "Rural", "Self-employed", "Unknown", "Urban", "Yes", "children",
      "formerly smoked", "never smoked", "smokes">>

CategoryRank(v) == CHOOSE i \in 1..Len(CategoryOrder) : CategoryOrder[i] = v

\* codes by first appearance: a value's code is the number of distinct values
\* the series holds before the value first occurs
CategoricalCodes_FirstObserved(series, v) ==
    LET first == CHOOSE i \in 1..Len(series) :
                    series[i] = v /\ \A j \in 1..(i - 1) : series[j] # v
    IN  Cardinality({series[j] : j \in 1..(first - 1)})

\* pd.Categorical(series).codes: the categories are the distinct values of
\* the series, sorted; a value's code is its position among them, from 0
CategoricalCodes(series, v) ==
    Cardinality({CategoryRank(series[i]) : i \in 1..Len(series)}
                  \cap (1..(CategoryRank(v) - 1)))

-----------------------------------------------------------------------------
(* model_wrappers.py: complete_preprocessing *)

\* Step 1
HandleMissing(df) ==
    LET a == IF HasColumn(df, "bmi")
             THEN FillNa(df, "bmi",
                         IF Len(df.rows) > 0 THEN Median(Column(df, "bmi")) ELSE 25)
             ELSE df
    IN  IF HasColumn(a, "avg_glucose_level")
        THEN FillNa(a, "avg_glucose_level",
                    IF Len(a.rows) > 0 THEN Median(Column(a, "avg_glucose_level"))
                    ELSE 100)
        ELSE a

\* the columns Step 2 writes, in the order it writes them
age_features(df) ==
    <<"age_30_45", "age_45_60", "age_60_75", "age_55_plus", "age_75_plus",
      "age_65_plus", "age_80_plus", "age_squared", "age_cubed", "age_log",
      "age_bin_young", "age_bin_middle", "age_bin_elderly">>
      \o (IF HasColumn(df, "hypertension")
          THEN <<"age_hypertension_interaction">> ELSE <<>>)
      \o (IF HasColumn(df, "heart_disease")
          THEN <<"age_heart_disease_interaction">> ELSE <<>>)
      \o (IF HasColumn(df, "avg_glucose_level")
          THEN <<"age_glucose_interaction">> ELSE <<>>)
      \o <<"age_dominated_risk">>

\* "df[col] if col in df.columns else 0"
CellOrZero(row, col) == IF col \in DOMAIN row THEN row[col] ELSE 0

\* Step 2, for one row: every column is computed from the columns Step 1 left
AgeFeaturesOf(row) ==
    LET age == row["age"] IN
    [age_30_45 |-> Ind(age >= 30 /\ age < 45),
     age_45_60 |-> Ind(age >= 45 /\ age < 60),
     age_60_75 |-> Ind(age >= 60 /\ age < 75),
     age_55_plus |-> Ind(age >= 55),
     age_75_plus |-> Ind(age >= 75),
     age_65_plus |-> Ind(age >= 65),
     age_80_plus |-> Ind(age >= 80),
     age_squared |-> age * age,
     age_cubed |-> age * age * age,
     age_log |-> LogThousandths(age),
     age_bin_young |-> Ind(age < 45),
     age_bin_middle |-> Ind(age >= 45 /\ age < 65),
     age_bin_elderly |-> Ind(age >= 65),
     age_hypertension_interaction |-> age * CellOrZero(row, "hypertension"),
     age_heart_disease_interaction |-> age * CellOrZero(row, "heart_disease"),
     age_glucose_interaction |->
         Over(Times(age, CellOrZero(row, "avg_glucose_level")), 100),
     age_dominated_risk |->
         Ind(age >= 65) * 3 + Ind(age >= 55) * 2 + Ind(age >= 45) * 1
           + CellOrZero(row, "hypertension") * 1
           + CellOrZero(row, "heart_disease") * 2]

\* Step 2
AgeFeatures(df) ==
    IF HasColumn(df, "age")
    THEN Assign(df, age_features(df),
                [i \in 1..Len(df.rows) |-> AgeFeaturesOf(df.rows[i])])
    ELSE df

categorical_cols ==
    <<"gender", "ever_married", "work_type", "Residence_type", "smoking_status">>

Encoded(col) == col \o "_encoded"

\* the categorical columns the frame has
CategoricalIn(df) == Within(categorical_cols, Names(df.columns))

\* Step 3: df[col + '_encoded'] = pd.Categorical(df[col]).codes
Encode(df) ==
    LET cols == CategoricalIn(df) IN
    Assign(df, [k \in 1..Len(cols) |-> Encoded(cols[k])],
           [i \in 1..Len(df.rows) |->
               [e \in {Encoded(c) : c \in Names(cols)} |->
                   LET col == CHOOSE c \in Names(cols) : Encoded(c) = e
                   IN  CategoricalCodes(Column(df, col), df.rows[i][col])]])

\* Step 4
DropCategorical(df) == Drop(df, CategoricalIn(df))

\* "for col in features: if col not in df.columns: df[col] = 0"
AddMissing(df, features) ==
    LET missing == Without(features, Names(df.columns))
    IN  Assign(df, missing,
               [i \in 1..Len(df.rows) |-> [c \in Names(missing) |-> 0]])

FilterExpected_KeepAll(df, expected_features) ==
    IF expected_features # None
    THEN AddMissing(df, expected_features[1])
    ELSE df

\* Step 5; every remaining column is numeric, so select_dtypes keeps all
FilterExpected(df, expected_features) ==
    IF expected_features # None
    THEN Select(AddMissing(df, expected_features[1]), expected_features[1])
    ELSE df

\* mutant of copy: the local name stays bound to the caller's object
copy_SameObject(df) == [frame |-> df, caller_object |-> TRUE]

\* "df = df.copy()": the local df is a new object with the caller's content
copy(df) == [frame |-> df, caller_object |-> FALSE]

\* Steps 1 to 3 assign columns in place, on the object the local df is bound
\* to; "df = df.drop(...)" of Step 4 binds the local to a new object, and
\* where Step 4 drops nothing Step 5's "df[col] = 0" is in place too
InPlace(df, expected_features) ==
    LET encoded == Encode(AgeFeatures(HandleMissing(df)))
    IN  IF CategoricalIn(encoded) = <<>> /\ expected_features # None
        THEN AddMissing(encoded, expected_features[1])
        ELSE encoded

complete_preprocessing(df, expected_features) ==
    FilterExpected(DropCategorical(Encode(AgeFeatures(HandleMissing(copy(df).frame)))),
                   expected_features)

\* the caller's DataFrame object when complete_preprocessing returns
CallerFrame(df, expected_features) ==
    IF copy(df).caller_object THEN InPlace(df, expected_features) ELSE df

-----------------------------------------------------------------------------
(* model_wrappers.py: the predictor wrappers *)

\* a column np.hstack added on the right; it has no name
padding == "<padding>"

RECURSIVE Padding(_)
Padding(k) == IF k <= 0 THEN <<>> ELSE <<padding>> \o Padding(k - 1)

\* "if self.expected_features is not None: ... X_processed[self.expected_features]"
UseExpected(self, X_processed) ==
    IF self.expected_features # None
    THEN Select(AddMissing(X_processed, self.expected_features[1]),
                self.expected_features[1])
    ELSE X_processed

\* "if hasattr(self.scaler, 'feature_names_in_') ...: ... X_processed[scaler_features]"
MatchScaler(self, X_processed) ==
    IF self.scaler.feature_names_in_ # None
    THEN Select(AddMissing(X_processed, self.scaler.feature_names_in_[1]),
                self.scaler.feature_names_in_[1])
    ELSE X_processed

Raised == [raised |-> TRUE, X_scaled |-> <<>>]

Passed(columns) == [raised |-> FALSE, X_scaled |-> columns]

\* mutant of MatchModel: a matrix narrower than the model is passed as it is
MatchModel_NoPadding(self, columns) ==
    IF self.model_n_features = None THEN Passed(columns)
    ELSE LET n == self.model_n_features[1] IN
         IF Len(columns) > n
         THEN IF self.expected_features # None /\ Len(self.expected_features[1]) = n
              THEN IF self.scaler.feature_names_in_ = None
                   THEN Raised
                   ELSE IF Names(self.expected_features[1])
                             \subseteq Names(self.scaler.feature_names_in_[1])
                        THEN Passed(self.expected_features[1])
                        ELSE Raised
              ELSE Passed(SubSeq(columns, 1, n))
         ELSE Passed(columns)

\* "if self.model_n_features is not None: ..." on the scaled matrix, whose
\* columns are named here by what they were scaled from
MatchModel(self, columns) ==
    IF self.model_n_features = None THEN Passed(columns)
    ELSE LET n == self.model_n_features[1] IN
         IF Len(columns) > n
         THEN IF self.expected_features # None /\ Len(self.expected_features[1]) = n
              THEN \* pd.DataFrame(X_scaled, columns=scaler_features)[expected_features]
                   IF self.scaler.feature_names_in_ = None
                   THEN Raised
                   ELSE IF Names(self.expected_features[1])
                             \subseteq Names(self.scaler.feature_names_in_[1])
                        THEN Passed(self.expected_features[1])
                        ELSE Raised
              ELSE Passed(SubSeq(columns, 1, n))
         ELSE IF Len(columns) < n
              THEN Passed(columns \o Padding(n - Len(columns)))
              ELSE Passed(columns)

\* everything a wrapper does before it calls the inner model: the same lines
\* in StrokeBinaryPredictor.predict, StrokeProbabilityPredictor.predict and
\* StrokeProbabilityPredictor.predict_proba.  scaler.transform raises when the
\* frame's width is not the width the scaler was fit with.
Reconcile(self, df) ==
    LET X_processed == MatchScaler(self, UseExpected(self, complete_preprocessing(df, None)))
    IN  IF Len(X_processed.columns) # self.scaler.n_features_in_
        THEN Raised
        ELSE MatchModel(self, X_processed.columns)

-----------------------------------------------------------------------------
(* model_wrappers.py: inputs *)

MaxRows == 2

MaxModelFeatures == 4

\* the columns prepare_input_dataframe builds, and a narrower frame
RawColumns ==
    <<"age", "gender", "hypertension", "heart_disease", "ever_married",
      "work_type", "Residence_type", "avg_glucose_level", "bmi", "smoking_status">>

NarrowColumns == <<"age", "gender", "avg_glucose_level">>

ColumnLayouts == {RawColumns, NarrowColumns}

Patients ==
    [age : {40, 70}, gender : {"Male", "Female"}, hypertension : {1},
     heart_disease : {0}, ever_married : {"Yes"}, work_type : {"Private"},
     Residence_type : {"Urban"}, avg_glucose_level : {NaN, 90},
     bmi : {NaN, 22, 30}, smoking_status : {"never smoked"}]

\* the patient_data dicts of app.py that give these rows
ProfileDicts ==
    [age : {40, 70}, gender : {"Male", "Female"}, hypertension : {TRUE},
     heart_disease : {FALSE}, ever_married : {"Yes"}, work_type : {"Private"},
     residence_type : {"Urban"}, avg_glucose_level : {NaN, 90},
     bmi : {NaN, 22, 30}, smoking_status : {"never smoked"}]

\* app.py prepare_input_dataframe: a new one-row frame built from the dict
prepare_input_dataframe(pd) ==
    Frame(RawColumns,
          <<[age |-> pd.age,
             gender |-> pd.gender,
             hypertension |-> Ind(pd.hypertension),
             heart_disease |-> Ind(pd.heart_disease),
             ever_married |-> pd.ever_married,
             work_type |-> pd.work_type,
             Residence_type |-> pd.residence_type,
             avg_glucose_level |-> pd.avg_glucose_level,
             bmi |-> pd.bmi,
             smoking_status |-> pd.smoking_status]>>)

RowOf(columns, p) == [c \in Names(columns) |-> p[c]] @@ <<>>

\* the frames of at most MaxRows rows with the given columns
FramesOf(columns) ==
    {Frame(columns, [i \in DOMAIN ps |-> RowOf(columns, ps[i])]) :
        ps \in UNION {[1..n -> Patients] : n \in 0..MaxRows}}

ExpectedFeatureLists ==
    {<<"gender_encoded", "age", "bmi">>,
     <<"age_75_plus", "glucose_bmi_ratio", "bmi", "smoking_status_encoded", "gender">>,
     <<"bmi", "age_80_plus">>}

ExpectedFeatures == {None} \cup {Some(f) : f \in ExpectedFeatureLists}

ScalerFeatureLists ==
    {<<"age", "bmi", "gender_encoded">>,
     <<"age", "bmi", "gender_encoded", "age_squared", "hypertension">>}

\* a fitted scaler: one fit on a DataFrame knows its feature names, one fit
\* on an array knows only its width
Scalers ==
    {[feature_names_in_ |-> None, n_features_in_ |-> 3]}
      \cup {[feature_names_in_ |-> Some(f), n_features_in_ |-> Len(f)] :
              f \in ScalerFeatureLists}

ModelWidths == {None} \cup {Some(n) : n \in 1..MaxModelFeatures}

Wrappers ==
    [class : {"StrokeBinaryPredictor", "StrokeProbabilityPredictor"},
     expected_features : ExpectedFeatures,
     scaler : Scalers,
     model_n_features : ModelWidths]

NoWrapper == None

NoFrame == None

NoCall ==
    [op |-> "none", expected_features |-> None, X_after |-> None,
     patient_data_after |-> None]

NoOutput == None

-----------------------------------------------------------------------------
(* app.py served by several worker threads: the locals of each /predict    *)
(* call in flight                                                          *)

Threads == {"t1", "t2"}

IdleRequest ==
    [pc |-> "idle", patient_data |-> NoPatient, binary_out |-> NoModel,
     probability_out |-> NoModel, assessment |-> NoResult, response |-> NoResult]

NoRequests == [t \in Threads |-> IdleRequest]

-----------------------------------------------------------------------------
(* The process *)

\* a model that was not loaded has no behaviour; a loaded one does the same
\* thing at every call made for one request
BinaryBehaviour(bo) == IF binary_model # "None" THEN bo ELSE NoModel

ProbabilityBehaviour(po) == IF probability_model # "None" THEN po ELSE NoModel

\* model loading at import time: each pickle either loads or leaves None
Init ==
    /\ app \in {"flask", "streamlit"}
    /\ binary_model \in {"None", "loaded"}
    /\ probability_model \in {"None", "loaded"}
    /\ pc = "idle"
    /\ patient_data = NoPatient
    /\ binary_out = NoModel
    /\ probability_out = NoModel
    /\ result = NoResult
    /\ served = 0
    /\ wrapper = NoWrapper
    /\ X = NoFrame
    /\ call = NoCall
    /\ out = NoOutput
    /\ requests = NoRequests
    /\ narrative = NoNarrative

\* POST /predict
Predict ==
    /\ app = "flask"
    /\ pc = "idle"
    /\ served < MaxRequests
    /\ \E pd \in Profiles, bo \in BinaryOutcomes, po \in ProbabilityOutcomes :
          /\ patient_data' = pd
          /\ binary_out' = BinaryBehaviour(bo)
          /\ probability_out' = ProbabilityBehaviour(po)
          /\ result' = predict(pd, bo, po)
    /\ pc' = "done"
    /\ served' = served + 1
    /\ UNCHANGED <<app, binary_model, probability_model, wrapper, X, call, out, requests, narrative>>

\* the "Assess Stroke Risk" button
AssessButton ==
    /\ app = "streamlit"
    /\ pc = "idle"
    /\ served < MaxRequests
    /\ \E pd \in Profiles, bo \in BinaryOutcomes, po \in ProbabilityOutcomes :
          /\ patient_data' = pd
          /\ binary_out' = BinaryBehaviour(bo)
          /\ probability_out' = ProbabilityBehaviour(po)
          /\ result' = st_assess(pd, bo, po)
    /\ pc' = "done"
    /\ served' = served + 1
    /\ UNCHANGED <<app, binary_model, probability_model, wrapper, X, call, out, requests, narrative>>

\* the response has been delivered; everything request-scoped is gone and
\* the process waits for the next request
AwaitRequest ==
    /\ pc = "done"
    /\ pc' = "idle"
    /\ patient_data' = NoPatient
    /\ binary_out' = NoModel
    /\ probability_out' = NoModel
    /\ result' = NoResult
    /\ UNCHANGED <<app, binary_model, probability_model, served, wrapper, X, call, out, requests, narrative>>

Next == Predict \/ AssessButton \/ AwaitRequest

Spec == Init /\ [][Next]_vars

-----------------------------------------------------------------------------
(* model_wrappers.py exercised on its own *)

arbiter == <<app, binary_model, probability_model, pc, patient_data,
             binary_out, probability_out, result, served>>

\* the module is imported; either no predictor has been unpickled, or one has
InitWrappers ==
    /\ app = "model_wrappers"
    /\ binary_model = "None"
    /\ probability_model = "None"
    /\ pc = "idle"
    /\ patient_data = NoPatient
    /\ binary_out = NoModel
    /\ probability_out = NoModel
    /\ result = NoResult
    /\ served = 0
    /\ wrapper \in {NoWrapper} \cup {Some(w) : w \in Wrappers}
    /\ X = NoFrame
    /\ call = NoCall
    /\ out = NoOutput
    /\ requests = NoRequests
    /\ narrative = NoNarrative

\* complete_preprocessing(df, expected_features), called directly
Preprocess ==
    /\ wrapper = NoWrapper
    /\ call = NoCall
    /\ \E columns \in ColumnLayouts, ef \in ExpectedFeatures :
         \E df \in FramesOf(columns) :
            /\ X' = Some(df)
            /\ call' = [op |-> "complete_preprocessing", expected_features |-> ef,
                        X_after |-> Some(CallerFrame(df, ef)),
                        patient_data_after |-> None]
            /\ out' = Some(complete_preprocessing(df, ef))
    /\ UNCHANGED <<arbiter, wrapper, requests, narrative>>

\* a predictor is called as app.py calls it: on the frame built from the
\* request's dict; the call record keeps the dict and the frame object as
\* they are when the call returns
CallOf(op, pd) ==
    [op |-> op,
     expected_features |-> wrapper[1].expected_features,
     X_after |-> Some(CallerFrame(prepare_input_dataframe(pd), None)),
     patient_data_after |-> Some(pd)]

\* StrokeBinaryPredictor.predict(X), up to the call of the inner model
BinaryPredict ==
    /\ wrapper # NoWrapper
    /\ call = NoCall
    /\ wrapper[1].class = "StrokeBinaryPredictor"
    /\ \E pd \in ProfileDicts :
            /\ X' = Some(prepare_input_dataframe(pd))
            /\ out' = Some(Reconcile(wrapper[1], prepare_input_dataframe(pd)))
            /\ call' = CallOf("StrokeBinaryPredictor.predict", pd)
    /\ UNCHANGED <<arbiter, wrapper, requests, narrative>>

\* StrokeProbabilityPredictor.predict(X), up to the call of the inner model
ProbabilityPredict ==
    /\ wrapper # NoWrapper
    /\ call = NoCall
    /\ wrapper[1].class = "StrokeProbabilityPredictor"
    /\ \E pd \in ProfileDicts :
            /\ X' = Some(prepare_input_dataframe(pd))
            /\ out' = Some(Reconcile(wrapper[1], prepare_input_dataframe(pd)))
            /\ call' = CallOf("StrokeProbabilityPredictor.predict", pd)
    /\ UNCHANGED <<arbiter, wrapper, requests, narrative>>

\* StrokeProbabilityPredictor.predict_proba(X), up to the call of the inner model
PredictProba ==
    /\ wrapper # NoWrapper
    /\ call = NoCall
    /\ wrapper[1].class = "StrokeProbabilityPredictor"
    /\ \E pd \in ProfileDicts :
            /\ X' = Some(prepare_input_dataframe(pd))
            /\ out' = Some(Reconcile(wrapper[1], prepare_input_dataframe(pd)))
            /\ call' = CallOf("StrokeProbabilityPredictor.predict_proba", pd)
    /\ UNCHANGED <<arbiter, wrapper, requests, narrative>>

\* the call has returned (or raised) and its frames are gone
Return ==
    /\ call # NoCall
    /\ X' = NoFrame
    /\ call' = NoCall
    /\ out' = NoOutput
    /\ UNCHANGED <<arbiter, wrapper, requests, narrative>>

NextWrappers ==
    Preprocess \/ BinaryPredict \/ ProbabilityPredict \/ PredictProba \/ Return

SpecWrappers == InitWrappers /\ [][NextWrappers]_vars

-----------------------------------------------------------------------------
(* app.py with requests interleaved: Flask's server runs each /predict     *)
(* call on its own thread; the threads share the module globals            *)

ConcurrentProfiles ==
    {pd \in Profiles : /\ pd.age \in {35, 65}
                       /\ pd.avg_glucose_level = 90
                       /\ pd.bmi = 22
                       /\ pd.smoking_status \in {"never smoked", "smokes"}}

ConcurrentBinaryOutcomes == {Returns(1), Raises}

ConcurrentProbabilityOutcomes == {Returns(100), Raises}

InitConcurrent ==
    /\ app = "flask"
    /\ binary_model \in {"None", "loaded"}
    /\ probability_model \in {"None", "loaded"}
    /\ pc = "idle"
    /\ patient_data = NoPatient
    /\ binary_out = NoModel
    /\ probability_out = NoModel
    /\ result = NoResult
    /\ served = 0
    /\ wrapper = NoWrapper
    /\ X = NoFrame
    /\ call = NoCall
    /\ out = NoOutput
    /\ requests = NoRequests
    /\ narrative = NoNarrative

served_by_threads == <<app, binary_model, probability_model, pc, patient_data,
                        binary_out, probability_out, result, served,
                        wrapper, X, call, out, narrative>>

\* "data = request.json" and the patient_data dict built from it
Receive(t) ==
    /\ requests[t].pc = "idle"
    /\ \E pd \in ConcurrentProfiles, bo \in ConcurrentBinaryOutcomes,
          po \in ConcurrentProbabilityOutcomes :
          requests' = [requests EXCEPT ![t] =
                          [IdleRequest EXCEPT !.pc = "parsed",
                                              !.patient_data = pd,
                                              !.binary_out = bo,
                                              !.probability_out = po]]
    /\ UNCHANGED served_by_threads

\* "... = predict_with_model(patient_data)"
Assess(t) ==
    /\ requests[t].pc = "parsed"
    /\ requests' = [requests EXCEPT ![t].pc = "assessed",
                                    ![t].assessment =
                                        predict_with_model(requests[t].patient_data,
                                                           requests[t].binary_out,
                                                           requests[t].probability_out)]
    /\ UNCHANGED served_by_threads

\* the route's own binary call and jsonify
Respond(t) ==
    /\ requests[t].pc = "assessed"
    /\ requests' = [requests EXCEPT ![t].pc = "responded",
                                    ![t].response =
                                        LET r == requests[t].assessment
                                        IN  IF r.raised THEN ErrorResponse
                                            ELSE [success |-> TRUE,
                                                  risk_percentage |-> r.risk_percentage,
                                                  risk_level |-> r.risk_level,
                                                  risk_factors |-> r.risk_factors,
                                                  explanation |-> r.explanation,
                                                  binary_prediction |->
                                                      RouteBinaryPrediction(requests[t].binary_out)]]
    /\ UNCHANGED served_by_threads

\* the response is sent and the thread's locals are gone
Close(t) ==
    /\ requests[t].pc = "responded"
    /\ requests' = [requests EXCEPT ![t] = IdleRequest]
    /\ UNCHANGED served_by_threads

NextConcurrent ==
    \E t \in Threads : Receive(t) \/ Assess(t) \/ Respond(t) \/ Close(t)

SpecConcurrent == InitConcurrent /\ [][NextConcurrent]_vars

-----------------------------------------------------------------------------
(* app.py: get_ai_insights called as the /predict route calls it, with the *)
(* parsed profile, the level of the assessment and the scorer's factors    *)

InitInsights ==
    /\ app = "flask"
    /\ binary_model = "None"
    /\ probability_model = "None"
    /\ pc = "idle"
    /\ patient_data = NoPatient
    /\ binary_out = NoModel
    /\ probability_out = NoModel
    /\ result = NoResult
    /\ served = 0
    /\ wrapper = NoWrapper
    /\ X = NoFrame
    /\ call = NoCall
    /\ out = NoOutput
    /\ requests = NoRequests
    /\ narrative = NoNarrative

GetInsights ==
    /\ narrative.pc = "idle"
    /\ \E pd \in Profiles, risk_level \in RiskLevels, outcome \in ServiceOutcomes :
          narrative' =
              [pc |-> "returned",
               patient_data |-> pd,
               risk_level |-> risk_level,
               outcome |-> outcome,
               returned |-> get_ai_insights(pd, risk_level,
                                            calculate_risk_score(pd).risk_factors,
                                            outcome)]
    /\ UNCHANGED <<arbiter, wrapper, X, call, out, requests>>

\* the text is in the response and the call's locals are gone
InsightsDelivered ==
    /\ narrative.pc = "returned"
    /\ narrative' = NoNarrative
    /\ UNCHANGED <<arbiter, wrapper, X, call, out, requests>>

NextInsights == GetInsights \/ InsightsDelivered

SpecInsights == InitInsights /\ [][NextInsights]_vars

-----------------------------------------------------------------------------
(* Properties *)

Done == pc = "done"

\* the rule-based scorer the running program uses for the current profile
RuleResult ==
    IF app = "flask" THEN calculate_risk_score(patient_data)
    ELSE st_calculate_risk_score(patient_data)

\* C1: whenever both models are loaded and the binary model returns 1 for
\* the request, the returned percentage is at least 30 and the level is not
\* LOW.
C1_BinaryFloor ==
    Done /\ BothLoaded /\ binary_out = Returns(1)
        => /\ result.success
           /\ result.risk_percentage >= 30
           /\ result.risk_level # "LOW"

\* C2: with both models loaded, a failure of one model's predict leaves the
\* other model's term in use: binary raises and probability returns p gives
\* the percentage derived from p; probability raises and binary returns b
\* gives the binary flag b.
C2_IndependentFallback ==
    Done /\ BothLoaded
        => /\ result.success
           /\ ((binary_out.kind = "raise" /\ probability_out.kind = "returned"
                  /\ probability_out.value \in 0..1000)
                 => result.risk_percentage
                      = Max(0, Min(100, IntTimes100(probability_out.value))))
           /\ (probability_out.kind = "raise" /\ binary_out.kind = "returned"
                 => result.binary_prediction = Some(binary_out.value))

\* C3: the percentage of the rule-based scorer (either version) is an
\* integer between 5 and 95, and so is the percentage returned on the
\* rule-based path.
C3_RulePercentageRange ==
    Done => /\ calculate_risk_score(patient_data).risk_percentage \in 5..95
            /\ st_calculate_risk_score(patient_data).risk_percentage \in 5..95
            /\ (~BothLoaded => result.success /\ result.risk_percentage \in 5..95)

\* a score above the cap was brought down to 95 on the rule-based path
C3_Witness ==
    /\ Done /\ ~BothLoaded /\ app = "flask"
    /\ BaseScore(patient_data).base_score > 95
    /\ result.risk_percentage = 95

\* C4: with both models loaded the returned percentage is between 0 and 100
\* whatever the models do (out-of-range probability, binary floor, fallback).
C4_ModelPercentageRange ==
    Done /\ BothLoaded => result.success /\ result.risk_percentage \in 0..100

\* an out-of-range probability (1.5) was clamped to 100
C4_Witness ==
    /\ Done /\ BothLoaded
    /\ binary_out.kind = "returned"
    /\ probability_out = Returns(1500)
    /\ result.risk_percentage = 100

\* C5: in every returned assessment the level is HIGH exactly when the
\* percentage is at least 60, MODERATE exactly when it is in [30,60) and LOW
\* exactly when it is below 30.
C5_TierConsistency ==
    Done => /\ result.success
            /\ (result.risk_level = "HIGH" <=> result.risk_percentage >= 60)
            /\ (result.risk_level = "MODERATE"
                  <=> result.risk_percentage >= 30 /\ result.risk_percentage < 60)
            /\ (result.risk_level = "LOW" <=> result.risk_percentage < 30)

\* the binary floor lifted a probability of 0.10 to 30 and the level follows
C5_Witness ==
    /\ Done /\ BothLoaded
    /\ binary_out = Returns(1)
    /\ probability_out = Returns(100)
    /\ result.risk_percentage = 30
    /\ result.risk_level = "MODERATE"

\* the score table of C6, written as one sum
AgePts(pd) ==
    IF pd.age >= 70 THEN 35 ELSE IF pd.age >= 60 THEN 25
    ELSE IF pd.age >= 50 THEN 15 ELSE IF pd.age >= 40 THEN 5 ELSE 0

GlucosePts(pd) ==
    IF pd.avg_glucose_level >= 200 THEN 15 ELSE IF pd.avg_glucose_level >= 140 THEN 10
    ELSE IF pd.avg_glucose_level >= 100 THEN 5 ELSE 0

BmiPts(pd) ==
    IF pd.bmi >= 35 THEN 10 ELSE IF pd.bmi >= 30 THEN 7
    ELSE IF pd.bmi >= 25 THEN 3 ELSE 0

SmokePts(pd) ==
    IF pd.smoking_status = "smokes" THEN 15
    ELSE IF pd.smoking_status = "formerly smoked" THEN 5 ELSE 0

TableScore(pd) ==
    AgePts(pd) + 20 * Ind(pd.hypertension) + 20 * Ind(pd.heart_disease)
    + GlucosePts(pd) + BmiPts(pd) + SmokePts(pd)
    + 10 * Ind(pd.age >= 60 /\ pd.hypertension)
    + 10 * Ind(pd.hypertension /\ pd.heart_disease)

TablePercentage(pd) ==
    IF TableScore(pd) < 5 THEN 5
    ELSE IF TableScore(pd) > 95 THEN 95 ELSE TableScore(pd)

\* C6: the percentage of app.py's scorer is the score table's sum clamped to
\* [5,95], and that is what the rule-based path returns.
C6_ScoreTable ==
    Done /\ app = "flask"
        => /\ calculate_risk_score(patient_data).risk_percentage
                = TablePercentage(patient_data)
           /\ (~BothLoaded => result.risk_percentage = TablePercentage(patient_data))

\* both combination bonuses applied together: 25 + 20 + 20 + 10 + 10
C6_Witness ==
    /\ Done /\ app = "flask" /\ ~BothLoaded
    /\ patient_data.age = 65 /\ patient_data.hypertension /\ patient_data.heart_disease
    /\ patient_data.avg_glucose_level = 90 /\ patient_data.bmi = 22
    /\ patient_data.smoking_status = "never smoked"
    /\ result.risk_percentage = 85

\* C7: when a model is absent the returned percentage, level, factors (and
\* explanations, in app.py) are those of the rule-based scorer for the
\* profile, whatever the loaded model does.
C7_AbsentModelIsRuleBased ==
    Done /\ ~BothLoaded
        => /\ result.success
           /\ result.risk_percentage = RuleResult.risk_percentage
           /\ result.risk_level = RuleResult.risk_level
           /\ result.risk_factors = RuleResult.risk_factors
           /\ (app = "flask" => result.explanation = RuleResult.explanation)

\* only the probability model is loaded and it returns 0.6 for a profile
\* the rules score LOW: the result is the rules'
C7_Witness ==
    /\ Done /\ binary_model = "None" /\ probability_model = "loaded"
    /\ probability_out = Returns(600)
    /\ RuleResult.risk_percentage < 30
    /\ result.risk_percentage = RuleResult.risk_percentage

\* C8: when a model is absent the binary flag of the returned assessment is
\* null.
C8_AbsentModelNullFlag ==
    Done /\ ~BothLoaded => result.success /\ result.binary_prediction = None

\* C9: whatever the two predict calls do, the handler returns an assessment
\* with a percentage, a level and the scorer's factor list, and when the
\* probability call raises the percentage and level are the rule-based ones.
C9_FailureNeverAborts ==
    Done => /\ result.success
            /\ result.risk_percentage \in 0..100
            /\ result.risk_level \in {"LOW", "MODERATE", "HIGH"}
            /\ result.risk_factors = RuleResult.risk_factors
            /\ (BothLoaded /\ probability_out.kind = "raise"
                  => /\ result.risk_percentage = RuleResult.risk_percentage
                     /\ result.risk_level = RuleResult.risk_level)

\* both predict calls raise and an assessment is still returned
C9_Witness ==
    /\ Done /\ BothLoaded
    /\ binary_out.kind = "raise" /\ probability_out.kind = "raise"
    /\ result.success
    /\ result.risk_percentage = RuleResult.risk_percentage

\* p * 100 rounded to the nearest integer, p in thousandths
RoundTimes100(pm) == IF pm >= 0 THEN (pm + 5) \div 10 ELSE -((5 - pm) \div 10)

\* C10: on the model path the percentage before the binary floor is p*100
\* rounded to the nearest integer and clamped to [0,100] (stated where the
\* floor does not act: the binary call did not return 1).
C10_RoundedPercentage ==
    (/\ Done /\ BothLoaded
     /\ probability_out.kind = "returned"
     /\ binary_out # Returns(1)
     /\ (app = "flask" => binary_out.kind = "returned"))
    => result.risk_percentage
         = Max(0, Min(100, RoundTimes100(probability_out.value)))

NoModelLoaded == binary_model = "None" /\ probability_model = "None"

Case1 ==
    [age |-> 75, hypertension |-> TRUE, heart_disease |-> FALSE,
     avg_glucose_level |-> 120, bmi |-> 22, smoking_status |-> "never smoked"]

\* C11 as stated: for concrete case 1 (age 75, hypertension, glucose 120,
\* bmi 22, never smoked) with no model loaded the assessment is 55, MODERATE,
\* factors Age 70+ and Hypertension, in both programs.
C11_Case1_AsStated ==
    Done /\ NoModelLoaded /\ patient_data = Case1
        => /\ result.risk_percentage = 55
           /\ result.risk_level = "MODERATE"
           /\ result.risk_factors = <<"Age 70+", "Hypertension">>

\* C11 amended: for concrete case 1 with no model loaded the factors are
\* Age 70+ and Hypertension in both programs; app.py returns 70 and HIGH
\* (35 + 20 + 5 for glucose >= 100 + 10 for age with hypertension),
\* streamlit_app.py returns 55 and MODERATE.
C11_Case1 ==
    Done /\ NoModelLoaded /\ patient_data = Case1
        => /\ result.success
           /\ result.risk_factors = <<"Age 70+", "Hypertension">>
           /\ (app = "flask"
                 => result.risk_percentage = 70 /\ result.risk_level = "HIGH")
           /\ (app = "streamlit"
                 => result.risk_percentage = 55 /\ result.risk_level = "MODERATE")

\* concrete case 1 was assessed by app.py with no model loaded
C11_Witness ==
    /\ Done /\ NoModelLoaded /\ app = "flask"
    /\ patient_data = Case1
    /\ result.risk_percentage = 70

Case2 ==
    [age |-> 65, hypertension |-> TRUE, heart_disease |-> TRUE,
     avg_glucose_level |-> 100, bmi |-> 26, smoking_status |-> "never smoked"]

\* C12 as stated: for concrete case 2 (age 65, hypertension, heart disease,
\* glucose 100, bmi 26, never smoked) the rule-based scorer returns 85 and
\* HIGH.
C12_Case2_AsStated ==
    Done /\ ~BothLoaded /\ patient_data = Case2
        => /\ RuleResult.risk_percentage = 85
           /\ RuleResult.risk_level = "HIGH"
           /\ result.risk_percentage = 85
           /\ result.risk_level = "HIGH"

\* C12 amended: for concrete case 2 the level is HIGH in both scorers; the
\* percentage is 93 in app.py (25 + 20 + 20 + 5 for glucose >= 100 + 3 for
\* bmi >= 25 + 10 + 10) and 65 in streamlit_app.py (25 + 20 + 20), and that
\* is what the rule-based path returns.
C12_Case2 ==
    Done /\ patient_data = Case2
        => /\ calculate_risk_score(patient_data).risk_percentage = 93
           /\ calculate_risk_score(patient_data).risk_level = "HIGH"
           /\ st_calculate_risk_score(patient_data).risk_percentage = 65
           /\ st_calculate_risk_score(patient_data).risk_level = "HIGH"
           /\ (~BothLoaded
                 => /\ result.risk_percentage = (IF app = "flask" THEN 93 ELSE 65)
                    /\ result.risk_level = "HIGH")

\* concrete case 2 was scored by app.py on the rule-based path
C12_Witness ==
    /\ Done /\ ~BothLoaded /\ app = "flask"
    /\ patient_data = Case2
    /\ result.risk_percentage = 93

AgeLabels == {"Age 70+", "Age 60-69", "Age 50-59"}

\* what the age block of the running program's scorer leaves behind
AgeBlock ==
    IF app = "flask"
    THEN AgeFactor(Start, patient_data)
    ELSE [base_score |-> st_AgeFactor(st_Start, patient_data).base_score,
          risk_factors |-> st_AgeFactor(st_Start, patient_data).risk_factors,
          explanation |-> <<>>]

NoAgeLabel(factors) == \A i \in 1..Len(factors) : factors[i] \notin AgeLabels

\* C13: below 40 the scorer adds no age points and emits no age factor; from
\* 40 to 49 it adds exactly 5 for age and emits no age factor or explanation.
C13_AgeBanding ==
    Done => /\ (patient_data.age < 40
                  => /\ AgeBlock.base_score = 0
                     /\ AgeBlock.explanation = <<>>
                     /\ NoAgeLabel(result.risk_factors))
            /\ (patient_data.age >= 40 /\ patient_data.age < 50
                  => /\ AgeBlock.base_score = 5
                     /\ AgeBlock.explanation = <<>>
                     /\ NoAgeLabel(result.risk_factors))

\* C14: on every path (models absent, succeeding, failing) the returned
\* factors, and in app.py the returned explanations, are exactly the
\* rule-based scorer's for the profile.
C14_FactorsFromScorer ==
    Done => /\ result.success
            /\ result.risk_factors = RuleResult.risk_factors
            /\ (app = "flask" => result.explanation = RuleResult.explanation)

\* both models answered, the percentage is the model's (60, not the rules'),
\* and the factors returned are the scorer's three
C14_Witness ==
    /\ Done /\ BothLoaded /\ app = "flask"
    /\ binary_out = Returns(1) /\ probability_out = Returns(600)
    /\ result.risk_percentage = 60
    /\ RuleResult.risk_percentage # 60
    /\ Len(result.risk_factors) = 3
    /\ result.risk_factors = RuleResult.risk_factors

\* the running program's rule-based percentage for a profile
RulePercentage(pd) ==
    IF app = "flask" THEN calculate_risk_score(pd).risk_percentage
    ELSE st_calculate_risk_score(pd).risk_percentage

WithGlucose(pd, g) == [pd EXCEPT !.avg_glucose_level = g]

\* C15: raising avg_glucose_level with every other field fixed never lowers
\* the rule-based percentage.
C15_GlucoseMonotone ==
    Done => LET here == RulePercentage(patient_data)
            IN  \A g \in Glucoses :
                  g >= patient_data.avg_glucose_level
                     => here <= RulePercentage(WithGlucose(patient_data, g))

\* a profile whose percentage strictly rises from glucose 90 to 150 to 210
C15_Witness ==
    /\ Done /\ app = "flask" /\ ~BothLoaded
    /\ patient_data.avg_glucose_level = 90
    /\ result.risk_percentage = RulePercentage(patient_data)
    /\ RulePercentage(patient_data) < RulePercentage(WithGlucose(patient_data, 150))
    /\ RulePercentage(WithGlucose(patient_data, 150))
          < RulePercentage(WithGlucose(patient_data, 210))

\* the fixed detection order: the group of each label of the vocabulary
DetectionGroup(label) ==
    IF label \in {"Age 70+", "Age 60-69", "Age 50-59"} THEN 1
    ELSE IF label = "Hypertension" THEN 2
    ELSE IF label = "Heart Disease" THEN 3
    ELSE IF label \in {"Very High Glucose", "Elevated Glucose"} THEN 4
    ELSE IF label \in {"Severe Obesity", "Obesity"} THEN 5
    ELSE IF label \in {"Current Smoker", "Former Smoker"} THEN 6
    ELSE 0

InDetectionOrder(factors) ==
    /\ \A i \in 1..Len(factors) : DetectionGroup(factors[i]) # 0
    /\ \A i, j \in 1..Len(factors) :
          i < j => DetectionGroup(factors[i]) < DetectionGroup(factors[j])

\* C20: the factors of either scorer, and so of every returned assessment,
\* are labels of the vocabulary in strictly rising detection group (age,
\* hypertension, heart disease, glucose, BMI, smoking): a subsequence of the
\* detection order, one label per group at most, no duplicate, no label for
\* a combination.
C20_FactorOrder ==
    Done => /\ InDetectionOrder(calculate_risk_score(patient_data).risk_factors)
            /\ InDetectionOrder(st_calculate_risk_score(patient_data).risk_factors)
            /\ InDetectionOrder(result.risk_factors)

\* a profile that triggers every group and both combination rules
C20_Witness ==
    /\ Done /\ app = "flask"
    /\ patient_data.age >= 60 /\ patient_data.hypertension /\ patient_data.heart_disease
    /\ result.risk_factors = <<"Age 60-69", "Hypertension", "Heart Disease",
                               "Very High Glucose", "Severe Obesity", "Current Smoker">>

\* the sentence app.py writes for a factor label
SentenceOf(label, pd) ==
    CASE label = "Age 70+" -> <<"age significant after 70", pd.age>>
      [] label = "Age 60-69" -> <<"age elevated risk", pd.age>>
      [] label = "Age 50-59" -> <<"age regular screening", pd.age>>
      [] label = "Hypertension" -> <<"hypertension damages vessels">>
      [] label = "Heart Disease" -> <<"heart disease linked to stroke">>
      [] label = "Very High Glucose" -> <<"glucose potential diabetes", pd.avg_glucose_level>>
      [] label = "Elevated Glucose" -> <<"glucose elevated", pd.avg_glucose_level>>
      [] label = "Severe Obesity" -> <<"bmi severe obesity", pd.bmi>>
      [] label = "Obesity" -> <<"bmi obesity", pd.bmi>>
      [] label = "Current Smoker" -> <<"smoking damages vessels">>
      [] label = "Former Smoker" -> <<"former smoking history">>
      [] OTHER -> <<"no sentence">>

\* the combination sentences a profile earns, in the order they are written
CombinationSentences(pd) ==
    (IF pd.age >= 60 /\ pd.hypertension
     THEN <<(<<"age and hypertension compound">>)>> ELSE <<>>)
      \o (IF pd.hypertension /\ pd.heart_disease
          THEN <<(<<"hypertension and heart disease">>)>> ELSE <<>>)

\* C21: in app.py the i-th explanation is the sentence of the i-th factor,
\* and the explanations after the last factor are exactly the combination
\* sentences the profile earns (age >= 60 with hypertension, hypertension
\* with heart disease), in that order.
C21_ExplanationsPairWithFactors ==
    (Done /\ app = "flask" /\ result.success) =>
        LET factors == result.risk_factors
            explanations == result.explanation
        IN  /\ Len(explanations) = Len(factors) + Len(CombinationSentences(patient_data))
            /\ \A i \in 1..Len(factors) :
                 explanations[i] = SentenceOf(factors[i], patient_data)
            /\ SubSeq(explanations, Len(factors) + 1, Len(explanations))
                 = CombinationSentences(patient_data)

\* a profile with factors and both combinations
C21_Witness ==
    /\ Done
    /\ app = "flask"
    /\ result.success
    /\ Len(result.risk_factors) = 4
    /\ Len(result.explanation) = 6
    /\ patient_data.smoking_status = "formerly smoked"

Responded(t) == requests[t].pc = "responded"

SameInput(t, u) ==
    /\ requests[t].patient_data = requests[u].patient_data
    /\ requests[t].binary_out = requests[u].binary_out
    /\ requests[t].probability_out = requests[u].probability_out

C24_ScorersEquivalent ==
    Done =>
        LET flask == calculate_risk_score(patient_data)
            streamlit == st_calculate_risk_score(patient_data)
        IN  /\ streamlit.risk_percentage = flask.risk_percentage
            /\ streamlit.risk_level = flask.risk_level
            /\ streamlit.risk_factors = flask.risk_factors

LevelRank(risk_level) ==
    IF risk_level = "HIGH" THEN 3 ELSE IF risk_level = "MODERATE" THEN 2 ELSE 1

SmokingRank(smoking_status) ==
    IF smoking_status = "smokes" THEN 3
    ELSE IF smoking_status = "formerly smoked" THEN 2 ELSE 1

\* q differs from p in one risk input only, and in the rising direction
RaisesOneInput(p, q) ==
    \/ /\ q.age >= p.age
       /\ q = [p EXCEPT !.age = q.age]
    \/ /\ q.bmi >= p.bmi
       /\ q = [p EXCEPT !.bmi = q.bmi]
    \/ /\ p.hypertension => q.hypertension
       /\ q = [p EXCEPT !.hypertension = q.hypertension]
    \/ /\ p.heart_disease => q.heart_disease
       /\ q = [p EXCEPT !.heart_disease = q.heart_disease]
    \/ /\ SmokingRank(q.smoking_status) >= SmokingRank(p.smoking_status)
       /\ q = [p EXCEPT !.smoking_status = q.smoking_status]

\* the profiles that raise one risk input of p
Raised1(p) ==
    {[p EXCEPT !.age = a] : a \in {b \in Ages : b >= p.age}}
      \cup {[p EXCEPT !.bmi = m] : m \in {b \in Bmis : b >= p.bmi}}
      \cup {[p EXCEPT !.hypertension = TRUE], [p EXCEPT !.heart_disease = TRUE]}
      \cup {[p EXCEPT !.smoking_status = s] :
              s \in {z \in SmokingStatuses :
                       SmokingRank(z) >= SmokingRank(p.smoking_status)}}

\* C27: for app.py's calculate_risk_score, raising age, raising bmi, switching
\* hypertension or heart_disease on, or moving smoking status from never to
\* former to current, all else fixed, never decreases the percentage and
\* never lowers the level.
C27_MonotoneInEveryInput ==
    (Done /\ app = "flask") =>
        LET here == calculate_risk_score(patient_data)
        IN  \A q \in Raised1(patient_data) :
              LET there == calculate_risk_score(q)
              IN  /\ RaisesOneInput(patient_data, q)
                  /\ here.risk_percentage <= there.risk_percentage
                  /\ LevelRank(here.risk_level) <= LevelRank(there.risk_level)

\* a profile at the edge of a band of every input, whose level rises when
\* hypertension is switched on
C27_Witness ==
    /\ Done
    /\ app = "flask"
    /\ patient_data.age = 65
    /\ ~patient_data.hypertension
    /\ patient_data.smoking_status = "never smoked"
    /\ calculate_risk_score(patient_data).risk_level = "LOW"
    /\ calculate_risk_score([patient_data EXCEPT !.hypertension = TRUE]).risk_level
          = "MODERATE"

-----------------------------------------------------------------------------
(* Properties of model_wrappers.py, under SpecWrappers *)

Preprocessed == call.op = "complete_preprocessing"

\* what Steps 1 to 4 derive from the frame of the current call
Derived == complete_preprocessing(X[1], None)

\* C16: when complete_preprocessing is given an expected_features list, the
\* output has exactly those columns in exactly that order, one row per input
\* row; an expected feature that Steps 1 to 4 derived holds the derived value,
\* one that they did not derive holds 0, and no other derived feature is left.
C16_SchemaSelection ==
    (Preprocessed /\ call.expected_features # None) =>
        LET expected_features == call.expected_features[1]
            df == out[1]
        IN  /\ df.columns = expected_features
            /\ Len(df.rows) = Len(X[1].rows)
            /\ \A i \in 1..Len(df.rows) :
                 /\ DOMAIN df.rows[i] = Names(expected_features)
                 /\ \A c \in Names(expected_features) :
                      df.rows[i][c] = IF HasColumn(Derived, c)
                                      THEN Derived.rows[i][c] ELSE 0

\* a call whose list names a derived feature, a feature that was not derived
\* and the original of an encoded column, and leaves derived features out
C16_Witness ==
    /\ Preprocessed
    /\ call.expected_features # None
    /\ Len(X[1].rows) = MaxRows
    /\ HasColumn(out[1], "age_75_plus")
    /\ HasColumn(out[1], "glucose_bmi_ratio")
    /\ out[1].rows[1]["glucose_bmi_ratio"] = 0
    /\ out[1].rows[1]["bmi"] = 30
    /\ HasColumn(Derived, "age_squared")
    /\ ~HasColumn(out[1], "age_squared")

\* C18: after complete_preprocessing no bmi and no avg_glucose_level is
\* missing; in a batch of one row a missing bmi becomes 25 and a missing
\* avg_glucose_level 100; in a larger batch a missing value becomes the median
\* of the batch's present values.
Imputed(col, fallback) ==
    (HasColumn(X[1], col) /\ HasColumn(out[1], col)) =>
        \A i \in 1..Len(out[1].rows) :
            /\ out[1].rows[i][col] # NaN
            /\ X[1].rows[i][col] # NaN => out[1].rows[i][col] = X[1].rows[i][col]
            /\ (X[1].rows[i][col] = NaN /\ Len(X[1].rows) = 1)
                  => out[1].rows[i][col] = fallback
            /\ (X[1].rows[i][col] = NaN /\ Len(X[1].rows) > 1
                  /\ \E j \in 1..Len(X[1].rows) : X[1].rows[j][col] # NaN)
                  => out[1].rows[i][col] = Median(Column(X[1], col))

C18_Imputation ==
    Preprocessed => Imputed("bmi", 25) /\ Imputed("avg_glucose_level", 100)

\* the categorical columns of the frame of the current call
CategoricalColumns == Names(categorical_cols) \cap Names(X[1].columns)

\* the rank at which the value of row i is first observed in its column
FirstObservedRank(col, i) ==
    LET series == Column(X[1], col)
        first == CHOOSE k \in 1..i :
                    series[k] = series[i] /\ \A j \in 1..(k - 1) : series[j] # series[i]
    IN  Cardinality({series[j] : j \in 1..(first - 1)})

\* the number of distinct values of the column that sort before the value of
\* row i
SortedRank(col, i) ==
    LET series == Column(X[1], col)
    IN  Cardinality({series[j] : j \in {k \in 1..Len(series) :
                        CategoryRank(series[k]) < CategoryRank(series[i])}})

WrapperCalled ==
    call.op \in {"StrokeBinaryPredictor.predict",
                 "StrokeProbabilityPredictor.predict",
                 "StrokeProbabilityPredictor.predict_proba"}

\* C17: whenever expected_features is set, the columns a wrapper passes to the
\* inner model are exactly the expected_features, in that order, for every
\* scaler feature list and every model_n_features.
C17_WrapperPassesExpected ==
    (WrapperCalled /\ wrapper[1].expected_features # None /\ ~out[1].raised)
        => out[1].X_scaled = wrapper[1].expected_features[1]

C26_ReconciledWidth ==
    (WrapperCalled /\ wrapper[1].model_n_features # None /\ ~out[1].raised)
        => Len(out[1].X_scaled) = wrapper[1].model_n_features[1]

\* a scaler narrower than the model: the matrix is padded on the right
C26_Witness ==
    /\ WrapperCalled
    /\ wrapper[1].model_n_features = Some(MaxModelFeatures)
    /\ wrapper[1].scaler.n_features_in_ < MaxModelFeatures
    /\ ~out[1].raised
    /\ Len(out[1].X_scaled) = MaxModelFeatures
    /\ out[1].X_scaled[MaxModelFeatures] = padding

-----------------------------------------------------------------------------
(* Properties of get_ai_insights, under SpecInsights *)

InsightsReturned == narrative.pc = "returned"

WellFormed200(outcome) ==
    outcome.kind = "response" /\ outcome.status_code = 200 /\ outcome.body = "content"

\* C25: whatever the text-generation call does, get_ai_insights does not
\* raise; it returns the service's text for a well-formed 200 response and
\* the text of generate_fallback_insights for every other outcome (another
\* status, a timeout or other exception, a 200 body without the fields).
C25_NarrativeFailureHandling ==
    InsightsReturned =>
        /\ ~narrative.returned.raised
        /\ narrative.returned.text =
              IF WellFormed200(narrative.outcome)
              THEN ServiceText
              ELSE generate_fallback_insights(
                       narrative.patient_data, narrative.risk_level,
                       calculate_risk_score(narrative.patient_data).risk_factors)

\* a 200 response without 'choices': the fallback text, with its conditional
\* recommendations
C25_Witness ==
    /\ InsightsReturned
    /\ narrative.outcome.status_code = 200
    /\ narrative.outcome.body = "no choices"
    /\ ~narrative.returned.raised
    /\ narrative.returned.text[1] = "opening elevated"
    /\ Len(narrative.returned.text) = 10

=============================================================================
